---- MODULE Spec2Model ----
(***************************************************************************)
(* Real-time session coordination layer of the telehealth backend          *)
(* (src/index.js, the socket.io relay): room membership, initiator         *)
(* assignment, signaling relay, chat and transcription relay with their    *)
(* persistence, and the authentication middleware of the connections.      *)
(*                                                                         *)
(* Two structures hold "who is in a room":                                 *)
(*   roomParticipants  the Map kept by index.js (roomId -> Set of ids),    *)
(*   rooms             socket.io's own rooms, which socket.join and        *)
(*                     socket.leave maintain and io.to / socket.to read.   *)
(* socket.io puts every socket in the room named by its own id, and a room *)
(* id is whatever string the client sends, so the two name spaces overlap: *)
(* RoomIds contains a connection id.                                       *)
(*                                                                         *)
(* The order in which one handler makes its emits is not modelled: outbox  *)
(* is a bag, and the JavaScript Sets are sets.                             *)
(*                                                                         *)
(* The last part models three HTTP routes whose handlers check a stored    *)
(* value and write it some awaits later: POST /api/appointments,           *)
(* POST /api/payments/process-payment and POST /api/ai/consultation-report.*)
(***************************************************************************)
EXTENDS Naturals, Sequences, FiniteSets, Bags, TLC

Conns == {"c1", "c2", "c3"}          \* socket.id values
PlainRooms == {"r1", "r2"}           \* consultation room ids
\* the strings clients send as roomId: the consultation rooms and one string
\* that is also the id of a connection
RoomIds == PlainRooms \cup {"c1"}
\* the strings clients send as `to`: a connection id or a room id
Targets == Conns \cup {"r1"}
\* the names of socket.io rooms
Names == Conns \cup RoomIds
None == "none"                       \* undefined / omitted field

\* chat-message payloads { senderId, senderRole, message, file } of the clients
ChatBodies ==
  {[senderId |-> "u1", senderRole |-> "patient", message |-> "m1", file |-> None],
   [senderId |-> "u2", senderRole |-> "doctor", message |-> "m2", file |-> "f1"]}
\* the rooms that have a Consultation document in the database
ConsultationRooms == {"r1"}
\* what new Date() may read
Times == {"t1", "t2"}

MaxRoomsPerConn == 2    \* rooms of roomParticipants one connection is in at once
MaxJoins == 4           \* join-room events of one run of the join scenario
MaxPending == 1         \* chat handlers waiting on the database at once
MaxStored == 1          \* chat messages stored in one consultation
MaxChats == 2           \* chat-message events of one run of the race scenario
MaxUpdates == 2         \* transcription-update events of one run of the order scenario
MaxRequests == 2        \* requests that one route receives in one run

\* the HTTP routes modelled
Routes == {"appointments", "process-payment", "consultation-report"}

VARIABLES
  status,            \* status[c]: "new" (not yet connected), "connected", "disconnected"
  rooms,             \* socket.io rooms: rooms[name] = set of socket ids in that room
  roomParticipants,  \* Map roomId -> Set of socket ids
  user,              \* user[c]: socket.user, <<the decoded token>>, or <<>> when not set
  outbox,            \* bag of the emits made by the handler step that ran last
  tasks,             \* bag of the async handlers suspended at an await: the event, its
                     \* payload, the await (pc), whether the broadcast is made (sent),
                     \* the document findOne returned (doc) and what was pushed to it
  consultations,     \* the Consultation collection: roomId -> document
  joined,            \* history: joined[c] = rooms c sent join-room for and has not left since
  joinOrder,         \* history: the connections in the order of their join-room events
  delivered,         \* history: bag of all the emits of the join or race scenario
  last,              \* history: the event handled last, and roomParticipants before it
  notified,          \* history: notified[a][b] = <<isInitiator>> of the user-joined about b
                     \* that a received last, <<>> when it received none
  memberSince,       \* history: memberSince[r] = the members of r, earliest join first
  received,          \* history: the transcription-update events <<conn, payload>> in the
                     \* order in which the relay received them
  broadcast,         \* history: the same events in the order of their broadcasts
  requests,          \* the HTTP handlers suspended at an await: the route, the request
                     \* body, the authenticated user, the await (pc) and the locals
  issued,            \* history: issued[route] = the requests received on that route
  response,          \* <<the response>> sent by the handler step that ran last, or <<>>
  appointments,      \* the Appointment collection: a sequence, a document's _id is its index
  consultationRooms, \* the appointments for which the route has stored a Consultation
  payments,          \* the payments that the payment gateway has created
  aiReport,          \* aiReport[r]: the aiReport field of consultation r, None for null
  generated,         \* history: the reports that the generator has returned
  savedReports       \* history: the reports that have been saved, in that order

\* the state of the HTTP routes
web == <<requests, issued, response, appointments, consultationRooms, payments,
         aiReport, generated, savedReports>>

extra == <<notified, memberSince, received, broadcast, web>>

\* the state and the history of the relay
relay == <<status, rooms, roomParticipants, user, outbox, tasks, consultations,
           joined, joinOrder, delivered, last, notified, memberSince, received, broadcast>>

vars == <<status, rooms, roomParticipants, user, outbox, tasks, consultations,
          joined, joinOrder, delivered, last, extra>>

----------------------------------------------------------------------------
(* JavaScript Set and Map, as index.js uses them *)

\* Set.prototype.add
SetAdd(s, x) == s \cup {x}

SetDeleteNoop(s, x) == s

\* Set.prototype.delete
SetDelete(s, x) == s \ {x}

\* Map.prototype.set
MapSet(m, k, v) == [x \in (DOMAIN m) \cup {k} |-> IF x = k THEN v ELSE m[x]]

\* Map.prototype.delete
MapDelete(m, k) == [x \in (DOMAIN m) \ {k} |-> m[x]]

\* roomParticipants.get(roomId) || new Set()
GetOrEmpty(m, k) == IF k \in DOMAIN m THEN m[k] ELSE {}

\* the member set of room r in the Membership Table m
Members(m, r) == GetOrEmpty(m, r)

----------------------------------------------------------------------------
(* socket.io emits.  An emit is recorded with the room it was addressed to *)
(* (None for socket.emit, which goes to the socket itself) and the set of  *)
(* sockets it reaches.                                                     *)

Emit(event, room, to, body) == [event |-> event, room |-> room, to |-> to, body |-> body]

\* io.to(room).emit: every socket in the socket.io room
IoTo(rms, room) == rms[room]

\* socket.to(room).emit: every socket in the room except the sending socket
SocketTo(rms, room, c) == rms[room] \ {c}

\* the sum of the bags f(x), x in S
RECURSIVE BagSum(_, _)
BagSum(f(_), S) ==
  IF S = {} THEN EmptyBag
  ELSE LET x == CHOOSE y \in S : TRUE IN f(x) (+) BagSum(f, S \ {x})

----------------------------------------------------------------------------
Init ==
  /\ status = [c \in Conns |-> "new"]
  /\ rooms = [r \in Names |-> {}]
  /\ roomParticipants = << >>
  /\ user = [c \in Conns |-> <<>>]
  /\ outbox = EmptyBag
  /\ tasks = EmptyBag
  /\ consultations = [r \in ConsultationRooms |-> [chatMessages |-> <<>>, transcription |-> <<>>]]
  /\ joined = [c \in Conns |-> {}]
  /\ joinOrder = <<>>
  /\ delivered = EmptyBag
  /\ last = [kind |-> "start", conn |-> None, roomId |-> None, to |-> None,
             body |-> None, now |-> None, outcome |-> None, before |-> << >>]
  /\ notified = [a \in Conns |-> [b \in Conns |-> <<>>]]
  /\ memberSince = [r \in RoomIds |-> <<>>]
  /\ received = <<>>
  /\ broadcast = <<>>
  /\ requests = {}
  /\ issued = [route \in Routes |-> 0]
  /\ response = <<>>
  /\ appointments = <<>>
  /\ consultationRooms = {}
  /\ payments = <<>>
  /\ aiReport = [r \in ConsultationRooms |-> None]
  /\ generated = <<>>
  /\ savedReports = <<>>

\* io.on('connection'): socket.io has put the socket in the room named socket.id
Connect(c) ==
  /\ status[c] = "new"
  /\ status' = [status EXCEPT ![c] = "connected"]
  /\ rooms' = [rooms EXCEPT ![c] = @ \cup {c}]
  /\ outbox' = EmptyBag
  /\ UNCHANGED <<roomParticipants, tasks, consultations>>

\* the tokens of socket.handshake.auth: none, one signed with JWT_SECRET, one not
Tokens == {None, "good", "bad"}

\* jwt.verify(token, process.env.JWT_SECRET): the decoded payload; <<>> when it throws
JwtVerify(token) == IF token = "good" THEN <<[userId |-> "u1"]>> ELSE <<>>

IoUseRejects(token) ==
  [user |-> IF token # None THEN JwtVerify(token) ELSE <<>>,
   err |-> IF token # None /\ JwtVerify(token) = <<>> THEN "Socket auth error" ELSE None]

\* io.use((socket, next) => ...): what it leaves in socket.user and what it passes to next
IoUse(token) ==
  [user |-> IF token # None THEN JwtVerify(token) ELSE <<>>,
   err |-> None]

\* a connect attempt: the middleware, then io.on('connection') unless next got an error
Handshake(c, token) ==
  LET res == IoUse(token)
  IN IF res.err = None
     THEN /\ Connect(c)
          /\ user' = [user EXCEPT ![c] = res.user]
     ELSE /\ status[c] = "new"
          /\ status' = [status EXCEPT ![c] = "rejected"]
          /\ outbox' = EmptyBag
          /\ UNCHANGED <<rooms, roomParticipants, user, tasks, consultations>>

\* the two user-joined emits of one iteration of existingParticipants.forEach
JoinNotices(rms, c, e) ==
  SetToBag({Emit("user-joined", e, IoTo(rms, e), [userId |-> c, isInitiator |-> TRUE])})
  (+) SetToBag({Emit("user-joined", None, {c}, [userId |-> e, isInitiator |-> FALSE])})

RoomReadyAlsoSecond(existing, c, r) ==
  IF Cardinality(existing) <= 1
  THEN SetToBag({Emit("room-ready", None, {c}, [roomId |-> r])})
  ELSE EmptyBag

\* if (existingParticipants.length === 0) socket.emit('room-ready', { roomId })
RoomReady(existing, c, r) ==
  IF Cardinality(existing) = 0
  THEN SetToBag({Emit("room-ready", None, {c}, [roomId |-> r])})
  ELSE EmptyBag

\* socket.on('join-room')
JoinRoom(c, r) ==
  /\ status[c] = "connected"
  /\ LET participants == GetOrEmpty(roomParticipants, r)
         existingParticipants == participants
         joinedRooms == [rooms EXCEPT ![r] = @ \cup {c}]
         Notices(e) == JoinNotices(joinedRooms, c, e)
     IN /\ rooms' = joinedRooms
        /\ roomParticipants' = MapSet(roomParticipants, r, SetAdd(participants, c))
        /\ outbox' = BagSum(Notices, existingParticipants)
                     (+) RoomReady(existingParticipants, c, r)
  /\ UNCHANGED <<status, tasks, consultations>>

RemoveParticipantKeepEmpty(m, r, c) == MapSet(m, r, SetDelete(m[r], c))

\* participants.delete(socket.id); if (participants.size === 0) roomParticipants.delete(roomId)
RemoveParticipant(m, r, c) ==
  LET participants == SetDelete(m[r], c)
  IN IF Cardinality(participants) = 0 THEN MapDelete(m, r) ELSE MapSet(m, r, participants)

\* socket.on('leave-room')
LeaveRoom(c, r) ==
  /\ status[c] = "connected"
  /\ LET leftRooms == [rooms EXCEPT ![r] = @ \ {c}]
     IN /\ rooms' = leftRooms
        /\ roomParticipants' = IF r \in DOMAIN roomParticipants
                               THEN RemoveParticipant(roomParticipants, r, c)
                               ELSE roomParticipants
        /\ outbox' = SetToBag({Emit("user-left", r, SocketTo(leftRooms, r, c), [userId |-> c])})
  /\ UNCHANGED <<status, tasks, consultations>>

\* the rooms the disconnect handler cleans: participants.has(socket.id)
RoomsOf(m, c) == {r \in DOMAIN m : c \in m[r]}

CleanFirstRoomOnly(m, c, todo) ==
  IF todo = {} THEN m
  ELSE RemoveParticipant(m, CHOOSE x \in todo : TRUE, c)

\* roomParticipants.forEach: the cleanup of every room in todo
RECURSIVE CleanRooms(_, _, _)
CleanRooms(m, c, todo) ==
  IF todo = {} THEN m
  ELSE LET r == CHOOSE x \in todo : TRUE
       IN CleanRooms(RemoveParticipant(m, r, c), c, todo \ {r})

\* socket.on('disconnect'): socket.io has already taken the socket out of all its rooms
Disconnect(c) ==
  /\ status[c] = "connected"
  /\ status' = [status EXCEPT ![c] = "disconnected"]
  /\ LET leftAll == [r \in Names |-> rooms[r] \ {c}]
         mine == RoomsOf(roomParticipants, c)
     IN /\ rooms' = leftAll
        /\ roomParticipants' = CleanRooms(roomParticipants, c, mine)
        /\ outbox' = SetToBag({Emit("user-left", r, SocketTo(leftAll, r, c), [userId |-> c])
                               : r \in mine})
  /\ UNCHANGED <<tasks, consultations>>

RelayFromData(event, c, roomId, to) ==
  /\ status[c] = "connected"
  /\ outbox' = IF to # None
               THEN SetToBag({Emit(event, to, IoTo(rooms, to), [from |-> to])})
               ELSE SetToBag({Emit(event, roomId, SocketTo(rooms, roomId, c), [from |-> roomId])})
  /\ UNCHANGED <<status, rooms, roomParticipants, tasks, consultations>>

\* the relay shared by the three signaling handlers: data = { roomId, <payload>, to };
\* only these three fields of data are read, and `from` is always socket.id
Relay(event, c, roomId, to) ==
  /\ status[c] = "connected"
  /\ outbox' = IF to # None
               THEN SetToBag({Emit(event, to, IoTo(rooms, to), [from |-> c])})
               ELSE SetToBag({Emit(event, roomId, SocketTo(rooms, roomId, c), [from |-> c])})
  /\ UNCHANGED <<status, rooms, roomParticipants, tasks, consultations>>

\* socket.on('webrtc-offer')
WebrtcOffer(c, roomId, to) == Relay("webrtc-offer", c, roomId, to)

\* socket.on('webrtc-answer')
WebrtcAnswer(c, roomId, to) == Relay("webrtc-answer", c, roomId, to)

\* socket.on('webrtc-ice-candidate')
WebrtcIceCandidate(c, roomId, to) == Relay("webrtc-ice-candidate", c, roomId, to)

----------------------------------------------------------------------------
(* chat-message: the broadcast, then the asynchronous persistence *)

\* new Date().toISOString()
ToISOString(t) == <<"iso", t>>

\* the cast of a chatMessages timestamp to the schema's Date
CastDate(s) == s[2]

\* the object the handler broadcasts and pushes: the payload's four fields and a timestamp
ChatEntry(body, timestamp) ==
  [senderId |-> body.senderId, senderRole |-> body.senderRole, message |-> body.message,
   file |-> body.file, timestamp |-> timestamp]

ChatToOthers(rms, roomId, c) == SocketTo(rms, roomId, c)

ChatToFromMembers(rms, roomId, c) ==
  IF c \in Members(roomParticipants, roomId) THEN IoTo(rms, roomId) ELSE {}

\* io.to(roomId) of the chat broadcast
ChatTo(rms, roomId, c) == IoTo(rms, roomId)

\* socket.on('chat-message') up to `await Consultation.findOne({ roomId })`
ChatMessage(c, roomId, body, now) ==
  /\ status[c] = "connected"
  /\ outbox' = SetToBag({Emit("chat-message", roomId, ChatTo(rooms, roomId, c),
                              ChatEntry(body, ToISOString(now)))})
  /\ tasks' = tasks (+) SetToBag({[event |-> "chat-message", conn |-> c, roomId |-> roomId,
                                   body |-> body, pc |-> "findOne", sent |-> TRUE,
                                   doc |-> None, pushed |-> <<>>]})
  /\ UNCHANGED <<status, rooms, roomParticipants, consultations>>

\* Consultation.findOne({ roomId }): the document, or null when there is none
FindOne(db, roomId) == IF roomId \in DOMAIN db THEN <<db[roomId]>> ELSE <<>>

ChatCatchReplies(t) ==
  SetToBag({Emit("error", None, {t.conn}, [message |-> "Error saving chat message"])})

\* catch (error) { console.error('Error saving chat message:', error) }
ChatCatch(t) == EmptyBag

\* the handler resumes after findOne: `rejected` is a storage error
ChatFindOne(t, outcome, now) ==
  /\ t \in BagToSet(tasks)
  /\ t.event = "chat-message"
  /\ t.pc = "findOne"
  /\ tasks' = IF outcome = "resolved" /\ FindOne(consultations, t.roomId) # <<>>
              THEN (tasks (-) SetToBag({t})) (+)
                   SetToBag({[t EXCEPT !.pc = "save",
                                !.doc = FindOne(consultations, t.roomId)[1],
                                !.pushed = <<ChatEntry(t.body, CastDate(ToISOString(now)))>>]})
              ELSE tasks (-) SetToBag({t})
  /\ outbox' = IF outcome = "rejected" THEN ChatCatch(t) ELSE EmptyBag
  /\ UNCHANGED <<status, rooms, roomParticipants, consultations>>

SaveReplaces(db, roomId, pushed) ==
  IF roomId \in DOMAIN db
  THEN [db EXCEPT ![roomId].chatMessages = pushed]
  ELSE db

\* consultation.save() after chatMessages.push(...): mongoose sends the pushed
\* elements as an append ($push) to the stored array, not the array it read
Save(db, roomId, pushed) ==
  IF roomId \in DOMAIN db
  THEN [db EXCEPT ![roomId].chatMessages = @ \o pushed]
  ELSE db

\* the handler resumes after save: `rejected` is a storage error
ChatSave(t, outcome) ==
  /\ t \in BagToSet(tasks)
  /\ t.event = "chat-message"
  /\ t.pc = "save"
  /\ consultations' = IF outcome = "resolved"
                      THEN Save(consultations, t.roomId, t.pushed)
                      ELSE consultations
  /\ tasks' = tasks (-) SetToBag({t})
  /\ outbox' = IF outcome = "rejected" THEN ChatCatch(t) ELSE EmptyBag
  /\ UNCHANGED <<status, rooms, roomParticipants>>

----------------------------------------------------------------------------
(* transcription-update: validation, persistence, then the broadcast *)

\* transcription-update payloads { roomId, text, senderRole } of the clients
TranscriptData ==
  {[roomId |-> "r1", text |-> " hi ", senderRole |-> role] : role \in {"doctor", "patient", "admin"}}
  \cup {[roomId |-> "r2", text |-> " hi ", senderRole |-> "doctor"],
        [roomId |-> None, text |-> " hi ", senderRole |-> "doctor"],
        [roomId |-> "r1", text |-> "", senderRole |-> "patient"],
        [roomId |-> "r1", text |-> None, senderRole |-> "patient"],
        [roomId |-> "r1", text |-> " hi ", senderRole |-> None]}

\* !x for the values a field takes here: undefined and the empty string are falsy
Falsy(x) == x = None \/ x = ""

InvalidNever(data) == FALSE

\* if (!roomId || !text || !senderRole)
Invalid(data) == Falsy(data.roomId) \/ Falsy(data.text) \/ Falsy(data.senderRole)

\* String.prototype.trim
Trim(text) == IF text = " hi " THEN "hi" ELSE text

NormalizeRoleKeep(senderRole) == senderRole

\* senderRole === 'doctor' || senderRole === 'patient' ? senderRole : 'unknown'
NormalizeRole(senderRole) ==
  IF senderRole = "doctor" \/ senderRole = "patient" THEN senderRole ELSE "unknown"

\* socket.user?.userId || socket.id
SenderIdOfSocket(c) == c

SenderId(c) == IF user[c] # <<>> /\ ~Falsy(user[c][1].userId) THEN user[c][1].userId ELSE c

\* the entry pushed to consultation.transcription; timestamp is a Date
TranscriptEntry(c, data, now) ==
  [senderId |-> SenderId(c), senderRole |-> NormalizeRole(data.senderRole),
   text |-> Trim(data.text), timestamp |-> now]

\* broadcastEntry: the entry with its timestamp as an ISO string
BroadcastEntry(entry) ==
  [senderId |-> entry.senderId, senderRole |-> entry.senderRole, text |-> entry.text,
   timestamp |-> ToISOString(entry.timestamp)]

\* socket.on('transcription-update') up to `await Consultation.findOne({ roomId })`
TranscriptionUpdate(c, data) ==
  /\ status[c] = "connected"
  /\ tasks' = IF Invalid(data)
              THEN tasks
              ELSE tasks (+) SetToBag({[event |-> "transcription-update", conn |-> c,
                                        roomId |-> data.roomId, body |-> data, pc |-> "findOne",
                                        sent |-> FALSE, doc |-> None, pushed |-> <<>>]})
  /\ outbox' = EmptyBag
  /\ UNCHANGED <<status, rooms, roomParticipants, consultations>>

\* the handler resumes after findOne: null and a storage error both end it
TranscriptFindOne(t, outcome, now) ==
  /\ t \in BagToSet(tasks)
  /\ t.event = "transcription-update"
  /\ t.pc = "findOne"
  /\ tasks' = IF outcome = "resolved" /\ FindOne(consultations, t.roomId) # <<>>
              THEN (tasks (-) SetToBag({t})) (+)
                   SetToBag({[t EXCEPT !.pc = "save",
                                !.doc = FindOne(consultations, t.roomId)[1],
                                !.pushed = <<TranscriptEntry(t.conn, t.body, now)>>]})
              ELSE tasks (-) SetToBag({t})
  /\ outbox' = EmptyBag
  /\ UNCHANGED <<status, rooms, roomParticipants, consultations>>

\* consultation.save() after transcription.push(entry)
SaveTranscription(db, roomId, pushed) ==
  IF roomId \in DOMAIN db
  THEN [db EXCEPT ![roomId].transcription = @ \o pushed]
  ELSE db

TranscriptSaveEmitsAnyway(t, outcome) ==
  /\ t \in BagToSet(tasks)
  /\ t.event = "transcription-update"
  /\ t.pc = "save"
  /\ consultations' = IF outcome = "resolved"
                      THEN SaveTranscription(consultations, t.roomId, t.pushed)
                      ELSE consultations
  /\ tasks' = tasks (-) SetToBag({t})
  /\ outbox' = SetToBag({Emit("transcription-update", t.roomId, IoTo(rooms, t.roomId),
                              BroadcastEntry(t.pushed[1]))})
  /\ UNCHANGED <<status, rooms, roomParticipants>>

\* the handler resumes after save: the broadcast is made only when it resolved
TranscriptSave(t, outcome) ==
  /\ t \in BagToSet(tasks)
  /\ t.event = "transcription-update"
  /\ t.pc = "save"
  /\ consultations' = IF outcome = "resolved"
                      THEN SaveTranscription(consultations, t.roomId, t.pushed)
                      ELSE consultations
  /\ tasks' = tasks (-) SetToBag({t})
  /\ outbox' = IF outcome = "resolved"
               THEN SetToBag({Emit("transcription-update", t.roomId, IoTo(rooms, t.roomId),
                                   BroadcastEntry(t.pushed[1]))})
               ELSE EmptyBag
  /\ UNCHANGED <<status, rooms, roomParticipants>>

----------------------------------------------------------------------------
(* events emitted without a payload: `data` is undefined in the handler *)

\* an exception that nothing catches ends the node process: every socket is
\* gone and with it the state the process held in memory
Crash ==
  /\ status' = [c \in Conns |-> "down"]
  /\ rooms' = [r \in Names |-> {}]
  /\ roomParticipants' = << >>
  /\ tasks' = EmptyBag
  /\ outbox' = EmptyBag
  /\ UNCHANGED consultations

\* a handler that ends without having changed or emitted anything
NoEffect ==
  /\ outbox' = EmptyBag
  /\ UNCHANGED <<status, rooms, roomParticipants, tasks, consultations>>

\* a signaling handler: `const { roomId, offer, to } = data` throws a TypeError
\* in the listener, which is not an async function and has no try
SignalNoPayload(c) ==
  /\ status[c] = "connected"
  /\ Crash

\* the chat-message handler is async and destructures outside its try: the
\* promise rejects and nothing handles it, which ends the process or only
\* prints a warning, depending on the node version
ChatNoPayload(c) ==
  /\ status[c] = "connected"
  /\ Crash \/ NoEffect

\* the transcription-update handler destructures inside its try: caught and logged
TranscriptNoPayload(c) ==
  /\ status[c] = "connected"
  /\ NoEffect

----------------------------------------------------------------------------
(* The events of the clients and of the database, with the history each    *)
(* one leaves.                                                             *)

\* the signaling payloads: roomId is only logged when `to` is set
SignalData ==
  {[roomId |-> r, to |-> None] : r \in RoomIds} \cup {[roomId |-> "r1", to |-> t] : t \in Targets}

Outcomes == {"resolved", "rejected"}

NumStored == Len(consultations["r1"].chatMessages)

\* the record of an event, taken before it is handled
Event(kind, c, roomId, to, body, now, outcome) ==
  [kind |-> kind, conn |-> c, roomId |-> roomId, to |-> to, body |-> body,
   now |-> now, outcome |-> outcome, before |-> roomParticipants]

\* a connection without a token
OnConnect ==
  \E c \in Conns :
    /\ Handshake(c, None)
    /\ last' = Event("connect", c, None, None, None, None, None)
    /\ UNCHANGED extra
    /\ UNCHANGED <<joined, joinOrder, delivered>>

OnJoinRoom ==
  \E c \in Conns, r \in RoomIds :
    /\ Cardinality(RoomsOf(roomParticipants, c) \cup {r}) <= MaxRoomsPerConn
    /\ JoinRoom(c, r)
    /\ joined' = [joined EXCEPT ![c] = @ \cup {r}]
    /\ last' = Event("join-room", c, r, None, None, None, None)
    /\ UNCHANGED extra
    /\ UNCHANGED <<user, joinOrder, delivered>>

OnLeaveRoom ==
  \E c \in Conns, r \in RoomIds :
    /\ LeaveRoom(c, r)
    /\ joined' = [joined EXCEPT ![c] = @ \ {r}]
    /\ last' = Event("leave-room", c, r, None, None, None, None)
    /\ UNCHANGED extra
    /\ UNCHANGED <<user, joinOrder, delivered>>

OnDisconnect ==
  \E c \in Conns :
    /\ Disconnect(c)
    /\ joined' = [joined EXCEPT ![c] = {}]
    /\ last' = Event("disconnect", c, None, None, None, None, None)
    /\ UNCHANGED extra
    /\ UNCHANGED <<user, joinOrder, delivered>>

OnWebrtcOffer ==
  \E c \in Conns, data \in SignalData :
    /\ WebrtcOffer(c, data.roomId, data.to)
    /\ last' = Event("webrtc-offer", c, data.roomId, data.to, None, None, None)
    /\ UNCHANGED extra
    /\ UNCHANGED <<user, joined, joinOrder, delivered>>

OnWebrtcAnswer ==
  \E c \in Conns, data \in SignalData :
    /\ WebrtcAnswer(c, data.roomId, data.to)
    /\ last' = Event("webrtc-answer", c, data.roomId, data.to, None, None, None)
    /\ UNCHANGED extra
    /\ UNCHANGED <<user, joined, joinOrder, delivered>>

OnWebrtcIceCandidate ==
  \E c \in Conns, data \in SignalData :
    /\ WebrtcIceCandidate(c, data.roomId, data.to)
    /\ last' = Event("webrtc-ice-candidate", c, data.roomId, data.to, None, None, None)
    /\ UNCHANGED extra
    /\ UNCHANGED <<user, joined, joinOrder, delivered>>

\* membership and signaling
Next ==
  \/ OnConnect
  \/ OnJoinRoom
  \/ OnLeaveRoom
  \/ OnDisconnect
  \/ OnWebrtcOffer
  \/ OnWebrtcAnswer
  \/ OnWebrtcIceCandidate

Spec == Init /\ [][Next]_vars

\* the join scenario: join-room events, all for the same room
OnJoinSameRoom ==
  \E c \in Conns, r \in RoomIds :
    /\ Len(joinOrder) < MaxJoins
    /\ DOMAIN roomParticipants \subseteq {r}
    /\ JoinRoom(c, r)
    /\ joined' = [joined EXCEPT ![c] = @ \cup {r}]
    /\ joinOrder' = Append(joinOrder, c)
    /\ delivered' = delivered (+) outbox'
    /\ last' = Event("join-room", c, r, None, None, None, None)
    /\ UNCHANGED extra
    /\ UNCHANGED user

NextJoin ==
  \/ OnConnect
  \/ OnJoinSameRoom

SpecJoin == Init /\ [][NextJoin]_vars

\* the chat scenario: connections in at most one room each, chat and its persistence
OnChatJoinRoom ==
  \E c \in Conns, r \in RoomIds :
    /\ RoomsOf(roomParticipants, c) = {}
    /\ JoinRoom(c, r)
    /\ joined' = [joined EXCEPT ![c] = @ \cup {r}]
    /\ last' = Event("join-room", c, r, None, None, None, None)
    /\ UNCHANGED extra
    /\ UNCHANGED <<user, joinOrder, delivered>>

OnChatMessage ==
  \E c \in Conns, r \in RoomIds, body \in ChatBodies, now \in Times :
    /\ BagCardinality(tasks) < MaxPending
    /\ NumStored + BagCardinality(tasks) < MaxStored
    /\ ChatMessage(c, r, body, now)
    /\ last' = Event("chat-message", c, r, None, body, now, None)
    /\ UNCHANGED extra
    /\ UNCHANGED <<user, joined, joinOrder, delivered>>

\* new Date() is read only when the document was found
OnChatFindOne ==
  \E t \in BagToSet(tasks), outcome \in Outcomes :
  \E now \in (IF outcome = "resolved" /\ t.roomId \in DOMAIN consultations THEN Times ELSE {None}) :
    /\ ChatFindOne(t, outcome, now)
    /\ last' = Event("chat-findOne", t.conn, t.roomId, None, t.body, now, outcome)
    /\ UNCHANGED extra
    /\ UNCHANGED <<user, joined, joinOrder, delivered>>

OnChatSave ==
  \E t \in BagToSet(tasks), outcome \in Outcomes :
    /\ ChatSave(t, outcome)
    /\ last' = Event("chat-save", t.conn, t.roomId, None, t.body, None, outcome)
    /\ UNCHANGED extra
    /\ UNCHANGED <<user, joined, joinOrder, delivered>>

NextChat ==
  \/ OnConnect
  \/ OnChatJoinRoom
  \/ OnDisconnect
  \/ OnChatMessage
  \/ OnChatFindOne
  \/ OnChatSave

SpecChat == Init /\ [][NextChat]_vars

\* the connect scenario: connections with every kind of token
OnConnectToken ==
  \E c \in Conns, token \in Tokens :
    /\ Handshake(c, token)
    /\ last' = Event("connect", c, None, None, token, None, None)
    /\ UNCHANGED extra
    /\ UNCHANGED <<joined, joinOrder, delivered>>

NextAuth ==
  \/ OnConnectToken
  \/ OnDisconnect

SpecAuth == Init /\ [][NextAuth]_vars

NumTranscribed == Len(consultations["r1"].transcription)

\* the two parties of a consultation
Speakers == {"c1", "c2"}

\* the transcript scenario: two connections with or without identity, the rooms
\* that have a consultation, transcription updates and their persistence
OnSpeakerConnect ==
  \E c \in Speakers, token \in Tokens :
    /\ Handshake(c, token)
    /\ last' = Event("connect", c, None, None, token, None, None)
    /\ UNCHANGED extra
    /\ UNCHANGED <<joined, joinOrder, delivered>>

OnTranscriptJoinRoom ==
  \E c \in Speakers, r \in ConsultationRooms :
    /\ c \notin Members(roomParticipants, r)
    /\ JoinRoom(c, r)
    /\ joined' = [joined EXCEPT ![c] = @ \cup {r}]
    /\ last' = Event("join-room", c, r, None, None, None, None)
    /\ UNCHANGED extra
    /\ UNCHANGED <<user, joinOrder, delivered>>

OnTranscriptionUpdate ==
  \E c \in Conns, data \in TranscriptData :
    /\ BagCardinality(tasks) < MaxPending
    /\ NumTranscribed + BagCardinality(tasks) < MaxStored
    /\ TranscriptionUpdate(c, data)
    /\ last' = Event("transcription-update", c, data.roomId, None, data, None, None)
    /\ UNCHANGED extra
    /\ UNCHANGED <<user, joined, joinOrder, delivered>>

\* new Date() is read only when the document was found
OnTranscriptFindOne ==
  \E t \in BagToSet(tasks), outcome \in Outcomes :
  \E now \in (IF outcome = "resolved" /\ t.roomId \in DOMAIN consultations THEN Times ELSE {None}) :
    /\ TranscriptFindOne(t, outcome, now)
    /\ last' = Event("transcript-findOne", t.conn, t.roomId, None, t, now, outcome)
    /\ UNCHANGED extra
    /\ UNCHANGED <<user, joined, joinOrder, delivered>>

OnTranscriptSave ==
  \E t \in BagToSet(tasks), outcome \in Outcomes :
    /\ TranscriptSave(t, outcome)
    /\ last' = Event("transcript-save", t.conn, t.roomId, None, t, None, outcome)
    /\ UNCHANGED extra
    /\ UNCHANGED <<user, joined, joinOrder, delivered>>

NextTranscript ==
  \/ OnSpeakerConnect
  \/ OnTranscriptJoinRoom
  \/ OnDisconnect
  \/ OnTranscriptionUpdate
  \/ OnTranscriptFindOne
  \/ OnTranscriptSave

SpecTranscript == Init /\ [][NextTranscript]_vars

\* the race scenario: chat messages for the room of one consultation, the
\* database never failing, any number of handlers waiting on it
OnRaceChatMessage ==
  \E c \in Speakers, r \in ConsultationRooms, body \in ChatBodies, now \in Times :
    /\ BagCardinality(delivered) < MaxChats
    /\ ChatMessage(c, r, body, now)
    /\ delivered' = delivered (+) outbox'
    /\ last' = Event("chat-message", c, r, None, body, now, None)
    /\ UNCHANGED extra
    /\ UNCHANGED <<user, joined, joinOrder>>

OnRaceFindOne ==
  \E t \in BagToSet(tasks), now \in Times :
    /\ ChatFindOne(t, "resolved", now)
    /\ last' = Event("chat-findOne", t.conn, t.roomId, None, t, now, "resolved")
    /\ UNCHANGED extra
    /\ UNCHANGED <<user, joined, joinOrder, delivered>>

OnRaceSave ==
  \E t \in BagToSet(tasks) :
    /\ ChatSave(t, "resolved")
    /\ last' = Event("chat-save", t.conn, t.roomId, None, t, None, "resolved")
    /\ UNCHANGED extra
    /\ UNCHANGED <<user, joined, joinOrder, delivered>>

NextRace ==
  \/ OnConnect
  \/ OnTranscriptJoinRoom
  \/ OnRaceChatMessage
  \/ OnRaceFindOne
  \/ OnRaceSave

SpecRace == Init /\ [][NextRace]_vars

\* the malformed-event scenario: membership events and events without a payload
OnSignalNoPayload ==
  \E c \in Conns, event \in {"webrtc-offer", "webrtc-answer", "webrtc-ice-candidate"} :
    /\ SignalNoPayload(c)
    /\ joined' = [d \in Conns |-> {}]
    /\ user' = [d \in Conns |-> <<>>]
    /\ last' = Event("no-payload", c, None, None, event, None, None)
    /\ UNCHANGED extra
    /\ UNCHANGED <<joinOrder, delivered>>

OnChatNoPayload ==
  \E c \in Conns :
    /\ ChatNoPayload(c)
    /\ joined' = [d \in Conns |-> IF status'[d] = "down" THEN {} ELSE joined[d]]
    /\ user' = [d \in Conns |-> IF status'[d] = "down" THEN <<>> ELSE user[d]]
    /\ last' = Event("no-payload", c, None, None, "chat-message", None, None)
    /\ UNCHANGED extra
    /\ UNCHANGED <<joinOrder, delivered>>

OnTranscriptNoPayload ==
  \E c \in Conns :
    /\ TranscriptNoPayload(c)
    /\ last' = Event("no-payload", c, None, None, "transcription-update", None, None)
    /\ UNCHANGED extra
    /\ UNCHANGED <<user, joined, joinOrder, delivered>>

NextFatal ==
  \/ OnConnect
  \/ OnChatJoinRoom
  \/ OnDisconnect
  \/ OnSignalNoPayload
  \/ OnChatNoPayload
  \/ OnTranscriptNoPayload

SpecFatal == Init /\ [][NextFatal]_vars

\* the outsider scenario: two connections in the room of a consultation, a
\* third in no room, signaling and chat from any of them
NextOutsider ==
  \/ OnConnect
  \/ OnTranscriptJoinRoom
  \/ OnWebrtcOffer
  \/ OnWebrtcAnswer
  \/ OnWebrtcIceCandidate
  \/ OnChatMessage
  \/ OnChatFindOne
  \/ OnChatSave

SpecOutsider == Init /\ [][NextOutsider]_vars

\* the identity scenario: two connections with or without identity in the room
\* of a consultation, their chat messages and transcription updates
OnSpeakerChatMessage ==
  \E c \in Speakers, r \in ConsultationRooms, body \in ChatBodies, now \in Times :
    /\ BagCardinality(tasks) < MaxPending
    /\ NumStored + NumTranscribed + BagCardinality(tasks) < MaxStored
    /\ ChatMessage(c, r, body, now)
    /\ last' = Event("chat-message", c, r, None, body, now, None)
    /\ UNCHANGED extra
    /\ UNCHANGED <<user, joined, joinOrder, delivered>>

OnSpeakerTranscriptionUpdate ==
  \E c \in Speakers, data \in TranscriptData :
    /\ BagCardinality(tasks) < MaxPending
    /\ NumStored + NumTranscribed + BagCardinality(tasks) < MaxStored
    /\ TranscriptionUpdate(c, data)
    /\ last' = Event("transcription-update", c, data.roomId, None, data, None, None)
    /\ UNCHANGED extra
    /\ UNCHANGED <<user, joined, joinOrder, delivered>>

NextIdentity ==
  \/ OnSpeakerConnect
  \/ OnTranscriptJoinRoom
  \/ OnSpeakerChatMessage
  \/ OnChatFindOne
  \/ OnChatSave
  \/ OnSpeakerTranscriptionUpdate
  \/ OnTranscriptFindOne
  \/ OnTranscriptSave

SpecIdentity == Init /\ [][NextIdentity]_vars

\* the persistence scenario: chat messages and transcription updates together
NextSink ==
  \/ OnSpeakerConnect
  \/ OnTranscriptJoinRoom
  \/ OnDisconnect
  \/ OnChatMessage
  \/ OnChatFindOne
  \/ OnChatSave
  \/ OnTranscriptionUpdate
  \/ OnTranscriptFindOne
  \/ OnTranscriptSave

SpecSink == Init /\ [][NextSink]_vars

\* the user-joined notices of the emits in box, recorded over n
Notified(n, box) ==
  [a \in Conns |-> [b \in Conns |->
    LET about == {e \in BagToSet(box) :
                   e.event = "user-joined" /\ a \in e.to /\ e.body.userId = b}
    IN IF about = {} THEN n[a][b]
       ELSE <<(CHOOSE e \in about : TRUE).body.isInitiator>>]]

\* the sequence q without connection c
Without(q, c) == SelectSeq(q, LAMBDA x : x # c)

\* the mesh scenario: the two parties join, leave and disconnect; a connection
\* joins a room only while it is not a member of it, MaxJoins join-room events
\* in one run
OnMeshJoinRoom ==
  \E c \in Speakers, r \in RoomIds :
    /\ c \notin Members(roomParticipants, r)
    /\ Cardinality(RoomsOf(roomParticipants, c) \cup {r}) <= MaxRoomsPerConn
    /\ Len(joinOrder) < MaxJoins
    /\ JoinRoom(c, r)
    /\ joined' = [joined EXCEPT ![c] = @ \cup {r}]
    /\ joinOrder' = Append(joinOrder, c)
    /\ notified' = Notified(notified, outbox')
    /\ memberSince' = [memberSince EXCEPT ![r] = Append(@, c)]
    /\ last' = Event("join-room", c, r, None, None, None, None)
    /\ UNCHANGED <<user, delivered, received, broadcast, web>>

OnMeshLeaveRoom ==
  \E c \in Speakers, r \in RoomIds :
    /\ LeaveRoom(c, r)
    /\ joined' = [joined EXCEPT ![c] = @ \ {r}]
    /\ memberSince' = [memberSince EXCEPT ![r] = Without(@, c)]
    /\ last' = Event("leave-room", c, r, None, None, None, None)
    /\ UNCHANGED <<user, joinOrder, delivered, notified, received, broadcast, web>>

OnMeshDisconnect ==
  \E c \in Speakers :
    /\ Disconnect(c)
    /\ joined' = [joined EXCEPT ![c] = {}]
    /\ memberSince' = [r \in RoomIds |-> Without(memberSince[r], c)]
    /\ last' = Event("disconnect", c, None, None, None, None, None)
    /\ UNCHANGED <<user, joinOrder, delivered, notified, received, broadcast, web>>

NextMesh ==
  \/ OnConnect
  \/ OnMeshJoinRoom
  \/ OnMeshLeaveRoom
  \/ OnMeshDisconnect

SpecMesh == Init /\ [][NextMesh]_vars

\* the order scenario: transcription updates for the consultation room, each
\* from another connection or with another payload, any number of them waiting
\* on the database at once
OnOrderTranscriptionUpdate ==
  \E c \in Speakers, data \in {d \in TranscriptData : ~Invalid(d) /\ d.roomId \in ConsultationRooms} :
    /\ Len(received) < MaxUpdates
    /\ \A i \in DOMAIN received : received[i] # <<c, data>>
    /\ TranscriptionUpdate(c, data)
    /\ received' = Append(received, <<c, data>>)
    /\ last' = Event("transcription-update", c, data.roomId, None, data, None, None)
    /\ UNCHANGED <<user, joined, joinOrder, delivered, notified, memberSince, broadcast, web>>

OnOrderFindOne ==
  \E t \in BagToSet(tasks), now \in Times :
    /\ TranscriptFindOne(t, "resolved", now)
    /\ last' = Event("transcript-findOne", t.conn, t.roomId, None, t, now, "resolved")
    /\ UNCHANGED <<user, joined, joinOrder, delivered, extra>>

OnOrderSave ==
  \E t \in BagToSet(tasks) :
    /\ TranscriptSave(t, "resolved")
    /\ broadcast' = IF \E e \in BagToSet(outbox') : e.to # {}
                    THEN Append(broadcast, <<t.conn, t.body>>)
                    ELSE broadcast
    /\ last' = Event("transcript-save", t.conn, t.roomId, None, t, None, "resolved")
    /\ UNCHANGED <<user, joined, joinOrder, delivered, notified, memberSince, received, web>>

NextOrder ==
  \/ OnSpeakerConnect
  \/ OnTranscriptJoinRoom
  \/ OnOrderTranscriptionUpdate
  \/ OnOrderFindOne
  \/ OnOrderSave

SpecOrder == Init /\ [][NextOrder]_vars

----------------------------------------------------------------------------
(* The HTTP routes.  A handler is suspended at each await; the database    *)
(* or gateway operation it waits for takes effect when the handler         *)
(* resumes.  The auth middleware has set req.user.userId.                  *)

\* the handler of request q goes on to its next await as q2
Resume(q, q2) ==
  /\ requests' = (requests \ {q}) \cup {q2}
  /\ response' = <<>>

\* res.status(status).json(body): the handler of request q ends
Respond(q, code, body) ==
  /\ requests' = requests \ {q}
  /\ response' = <<[id |-> q.id, route |-> q.route, status |-> code, body |-> body,
                    stored |-> q.doc]>>

\* a request received on a route, its handler not yet started
Request(route, body, userId) ==
  [id |-> issued[route] + 1, route |-> route, body |-> body, userId |-> userId,
   pc |-> "start", doc |-> <<>>, made |-> <<>>]

(* POST /api/appointments (src/routes/appointments.js) *)

APPOINTMENT_DURATION_MINUTES == 10

\* the Doctor collection: _id -> consultationFee
Doctors == [d \in {"d1", "d2"} |-> 50]

\* Patient.findOne({ userId }): <<the _id of the profile>>, <<>> for null
PatientOf(userId) ==
  IF userId = "u1" THEN <<"p1">> ELSE IF userId = "u2" THEN <<"p2">> ELSE <<>>

\* new Date(), in minutes; appointmentDate values are minutes on the same clock
Today == 0

\* the request bodies { doctorId, specialty, appointmentDate } of the clients:
\* a doctor that exists or not, a start in the past or ahead, one empty doctorId
BookingBodies ==
  {[doctorId |-> d, specialty |-> "general", appointmentDate |-> t] :
     d \in {"d1", "d2", "dx"}, t \in {0, 5, 10, 15}}
  \cup {[doctorId |-> "", specialty |-> "general", appointmentDate |-> 5]}

\* the express-validator chain: doctorId and specialty notEmpty (every
\* appointmentDate of BookingBodies is an ISO 8601 date)
BookingErrors(body) == Falsy(body.doctorId) \/ Falsy(body.specialty)

\* Appointment.findOne({ doctorId, appointmentDate: { $lt: appointmentEnd },
\*   $expr: { $gt: [{ $add: ['$appointmentDate', duration] }, appointmentStart] } })
ClashingAppointments(db, doctorId, appointmentStart) ==
  LET appointmentEnd == appointmentStart + APPOINTMENT_DURATION_MINUTES
  IN {i \in DOMAIN db :
        /\ db[i].doctorId = doctorId
        /\ db[i].appointmentDate < appointmentEnd
        /\ db[i].appointmentDate + APPOINTMENT_DURATION_MINUTES > appointmentStart}

\* new Appointment({ patientId, doctorId, specialty, appointmentDate, amount })
NewAppointment(q) ==
  [patientId |-> PatientOf(q.userId)[1], doctorId |-> q.body.doctorId,
   specialty |-> q.body.specialty, appointmentDate |-> q.body.appointmentDate,
   amount |-> Doctors[q.body.doctorId], status |-> "pending",
   paymentStatus |-> "pending", paymentIntentId |-> <<>>]

\* the request arrives: validation, then `await Doctor.findById(doctorId)`
PostAppointment(body, userId) ==
  LET q == Request("appointments", body, userId)
  IN /\ issued' = [issued EXCEPT !["appointments"] = @ + 1]
     /\ IF BookingErrors(body)
        THEN Respond(q, 400, "errors")
        ELSE Resume(q, [q EXCEPT !.pc = "findDoctor"])
     /\ UNCHANGED <<appointments, consultationRooms, payments, aiReport, generated,
                    savedReports>>

\* after Doctor.findById: 404, the past-date check, then the clash query is sent
AppointmentFindDoctor(q, outcome) ==
  /\ q \in requests /\ q.route = "appointments" /\ q.pc = "findDoctor"
  /\ IF outcome = "rejected" THEN Respond(q, 500, "Server error")
     ELSE IF q.body.doctorId \notin DOMAIN Doctors THEN Respond(q, 404, "Doctor not found")
     ELSE IF q.body.appointmentDate <= Today
          THEN Respond(q, 400, "Cannot book an appointment in the past")
     ELSE Resume(q, [q EXCEPT !.pc = "findClash"])
  /\ UNCHANGED <<issued, appointments, consultationRooms, payments, aiReport, generated,
                 savedReports>>

\* after the clash query: 409 when it found an appointment
AppointmentFindClash(q, outcome) ==
  /\ q \in requests /\ q.route = "appointments" /\ q.pc = "findClash"
  /\ IF outcome = "rejected" THEN Respond(q, 500, "Server error")
     ELSE IF ClashingAppointments(appointments, q.body.doctorId, q.body.appointmentDate) # {}
          THEN Respond(q, 409, "Selected time slot is already booked")
     ELSE Resume(q, [q EXCEPT !.pc = "findPatient"])
  /\ UNCHANGED <<issued, appointments, consultationRooms, payments, aiReport, generated,
                 savedReports>>

\* after Patient.findOne: 404, or the appointment is built and its save awaited
AppointmentFindPatient(q, outcome) ==
  /\ q \in requests /\ q.route = "appointments" /\ q.pc = "findPatient"
  /\ IF outcome = "rejected" THEN Respond(q, 500, "Server error")
     ELSE IF PatientOf(q.userId) = <<>> THEN Respond(q, 404, "Patient profile not found")
     ELSE Resume(q, [q EXCEPT !.pc = "saveAppointment", !.made = <<NewAppointment(q)>>])
  /\ UNCHANGED <<issued, appointments, consultationRooms, payments, aiReport, generated,
                 savedReports>>

\* await appointment.save(): the document is inserted
AppointmentSave(q, outcome) ==
  /\ q \in requests /\ q.route = "appointments" /\ q.pc = "saveAppointment"
  /\ IF outcome = "rejected"
     THEN /\ Respond(q, 500, "Server error")
          /\ UNCHANGED appointments
     ELSE /\ appointments' = Append(appointments, q.made[1])
          /\ Resume(q, [q EXCEPT !.pc = "saveConsultation", !.doc = <<Len(appointments) + 1>>])
  /\ UNCHANGED <<issued, consultationRooms, payments, aiReport, generated, savedReports>>

\* await consultation.save(): the consultation room of the appointment is inserted
AppointmentSaveConsultation(q, outcome) ==
  /\ q \in requests /\ q.route = "appointments" /\ q.pc = "saveConsultation"
  /\ IF outcome = "rejected"
     THEN /\ Respond(q, 500, "Server error")
          /\ UNCHANGED consultationRooms
     ELSE /\ consultationRooms' = consultationRooms \cup {q.doc[1]}
          /\ Resume(q, [q EXCEPT !.pc = "populate"])
  /\ UNCHANGED <<issued, appointments, payments, aiReport, generated, savedReports>>

\* the two awaits of appointment.populate, then the 201 response
AppointmentPopulate(q, outcome) ==
  /\ q \in requests /\ q.route = "appointments" /\ q.pc = "populate"
  /\ IF outcome = "rejected" THEN Respond(q, 500, "Server error")
     ELSE Respond(q, 201, "appointment")
  /\ UNCHANGED <<issued, appointments, consultationRooms, payments, aiReport, generated,
                 savedReports>>

\* the booking scenario: concurrent POST /api/appointments requests
OnPostAppointment ==
  \E body \in BookingBodies, userId \in {"u1", "u9"} :
    /\ issued["appointments"] < MaxRequests
    /\ PostAppointment(body, userId)
    /\ UNCHANGED relay

\* a handler resumes after one of its awaits
OnAppointmentStep ==
  \E q \in requests, outcome \in Outcomes :
    /\ \/ AppointmentFindDoctor(q, outcome)
       \/ AppointmentFindClash(q, outcome)
       \/ AppointmentFindPatient(q, outcome)
       \/ AppointmentSave(q, outcome)
       \/ AppointmentSaveConsultation(q, outcome)
       \/ AppointmentPopulate(q, outcome)
    /\ UNCHANGED relay

NextBooking ==
  \/ OnPostAppointment
  \/ OnAppointmentStep

SpecBooking == Init /\ [][NextBooking]_vars

(* POST /api/payments/process-payment (src/routes/payments.js).            *)
(* SQUARE_ACCESS_TOKEN and SQUARE_LOCATION_ID are set.                     *)

\* the request bodies { appointmentId, cardData: { sourceId } } of the clients
PaymentBodies ==
  {[appointmentId |-> a, sourceId |-> "card"] : a \in {1, 2}}
  \cup {[appointmentId |-> 1, sourceId |-> None]}

\* what squareClient.paymentsApi.createPayment makes of a request: a payment
\* with one of three statuses, a result with errors, or an exception
GatewayResults == {"COMPLETED", "APPROVED", "FAILED", "errors", "throws"}

\* the results with which the gateway has created a payment
Created == {"COMPLETED", "APPROVED", "FAILED"}

\* the request arrives: the check of the body, then `await Appointment.findById`
PostProcessPayment(body, userId) ==
  LET q == Request("process-payment", body, userId)
  IN /\ issued' = [issued EXCEPT !["process-payment"] = @ + 1]
     /\ IF Falsy(body.sourceId)
        THEN Respond(q, 400, "Missing required payment information")
        ELSE Resume(q, [q EXCEPT !.pc = "findAppointment"])
     /\ UNCHANGED <<appointments, consultationRooms, payments, aiReport, generated,
                    savedReports>>

\* after Appointment.findById: 404, or the handler holds the document it read
PaymentFindAppointment(q, outcome) ==
  /\ q \in requests /\ q.route = "process-payment" /\ q.pc = "findAppointment"
  /\ IF outcome = "rejected"
     THEN Respond(q, 500, "Server error during payment processing")
     ELSE IF q.body.appointmentId \notin DOMAIN appointments
          THEN Respond(q, 404, "Appointment not found")
     ELSE Resume(q, [q EXCEPT !.pc = "findPatient",
                              !.doc = <<q.body.appointmentId>>,
                              !.made = <<appointments[q.body.appointmentId]>>])
  /\ UNCHANGED <<issued, appointments, consultationRooms, payments, aiReport, generated,
                 savedReports>>

\* if (appointment.paymentStatus === "paid")
AlreadyPaid(appointment) == appointment.paymentStatus = "paid"

\* after Patient.findOne: 404, 403, the already-paid check on the document
\* read before, the amount check, then createPayment is called
PaymentFindPatient(q, outcome) ==
  /\ q \in requests /\ q.route = "process-payment" /\ q.pc = "findPatient"
  /\ IF outcome = "rejected"
     THEN Respond(q, 500, "Server error during payment processing")
     ELSE IF PatientOf(q.userId) = <<>>
          THEN Respond(q, 404, "Patient profile not found")
     ELSE IF q.made[1].patientId # PatientOf(q.userId)[1]
          THEN Respond(q, 403, "Unauthorized appointment access")
     ELSE IF AlreadyPaid(q.made[1])
          THEN Respond(q, 400, "Payment already completed")
     ELSE IF q.made[1].amount <= 0
          THEN Respond(q, 400, "Invalid payment amount")
     ELSE Resume(q, [q EXCEPT !.pc = "createPayment"])
  /\ UNCHANGED <<issued, appointments, consultationRooms, payments, aiReport, generated,
                 savedReports>>

\* after createPayment: the gateway has created the payment or not; the
\* handler sets paymentIntentId and, for COMPLETED, paymentStatus and status
PaymentCreate(q, result) ==
  /\ q \in requests /\ q.route = "process-payment" /\ q.pc = "createPayment"
  /\ payments' = IF result \in Created
                 THEN Append(payments, [appointmentId |-> q.doc[1], status |-> result])
                 ELSE payments
  /\ IF result = "throws"
     THEN Respond(q, 500, "Server error during payment processing")
     ELSE IF result = "errors" THEN Respond(q, 400, "Payment failed")
     ELSE IF result = "COMPLETED"
          THEN Resume(q, [q EXCEPT !.pc = "save",
                                   !.made = <<[q.made[1] EXCEPT
                                                 !.paymentIntentId = <<Len(payments) + 1>>,
                                                 !.paymentStatus = "paid",
                                                 !.status = "confirmed"]>>])
     ELSE IF result = "APPROVED"
          THEN Resume(q, [q EXCEPT !.pc = "save",
                                   !.made = <<[q.made[1] EXCEPT
                                                 !.paymentIntentId = <<Len(payments) + 1>>,
                                                 !.paymentStatus = "pending"]>>])
     ELSE Respond(q, 400, "Payment not completed")
  /\ UNCHANGED <<issued, appointments, consultationRooms, aiReport, generated, savedReports>>

\* appointment.save() writes the paths the handler has set
SavePayment(db, id, appointment) ==
  [db EXCEPT ![id] = [@ EXCEPT !.paymentIntentId = appointment.paymentIntentId,
                               !.paymentStatus = IF appointment.paymentStatus = "paid"
                                                 THEN "paid" ELSE @,
                               !.status = IF appointment.paymentStatus = "paid"
                                          THEN "confirmed" ELSE @]]

\* after appointment.save(): the success response
PaymentSave(q, outcome) ==
  /\ q \in requests /\ q.route = "process-payment" /\ q.pc = "save"
  /\ IF outcome = "rejected"
     THEN /\ Respond(q, 500, "Server error during payment processing")
          /\ UNCHANGED appointments
     ELSE /\ appointments' = SavePayment(appointments, q.doc[1], q.made[1])
          /\ Respond(q, 200, IF q.made[1].paymentStatus = "paid"
                             THEN "Payment completed successfully"
                             ELSE "Payment approved and processing")
  /\ UNCHANGED <<issued, consultationRooms, payments, aiReport, generated, savedReports>>

\* the payment scenario: patient u1 books one appointment, then concurrent
\* process-payment requests
OnPaymentBooking ==
  /\ issued["appointments"] = 0
  /\ PostAppointment([doctorId |-> "d1", specialty |-> "general", appointmentDate |-> 5], "u1")
  /\ UNCHANGED relay

OnPaymentBookingStep ==
  \E q \in requests :
    /\ \/ AppointmentFindDoctor(q, "resolved")
       \/ AppointmentFindClash(q, "resolved")
       \/ AppointmentFindPatient(q, "resolved")
       \/ AppointmentSave(q, "resolved")
       \/ AppointmentSaveConsultation(q, "resolved")
       \/ AppointmentPopulate(q, "resolved")
    /\ UNCHANGED relay

OnPostProcessPayment ==
  \E body \in PaymentBodies, userId \in {"u1", "u2", "u9"} :
    /\ issued["process-payment"] < MaxRequests
    /\ PostProcessPayment(body, userId)
    /\ UNCHANGED relay

OnPaymentStep ==
  \E q \in requests, outcome \in Outcomes :
    /\ \/ PaymentFindAppointment(q, outcome)
       \/ PaymentFindPatient(q, outcome)
       \/ PaymentSave(q, outcome)
    /\ UNCHANGED relay

OnPaymentCreate ==
  \E q \in requests, result \in GatewayResults :
    PaymentCreate(q, result) /\ UNCHANGED relay

NextPayment ==
  \/ OnPaymentBooking
  \/ OnPaymentBookingStep
  \/ OnPostProcessPayment
  \/ OnPaymentStep
  \/ OnPaymentCreate

SpecPayment == Init /\ [][NextPayment]_vars

(* POST /api/ai/consultation-report (src/routes/ai.js) *)

\* the request bodies { consultation: { _id }, appointment: { patientId, doctorId } }
\* of the clients: a consultation, a patient and a doctor that exist or not
ReportBodies ==
  {[consultation |-> "r1", patientId |-> "p1", doctorId |-> "d1"],
   [consultation |-> "rx", patientId |-> "p1", doctorId |-> "d1"],
   [consultation |-> "r1", patientId |-> "px", doctorId |-> "d1"],
   [consultation |-> "r1", patientId |-> "p1", doctorId |-> "dx"]}

\* the Patient collection
Patients == {"p1", "p2"}

\* what result.response.text() may be
Reports == {"report1", "report2", ""}

\* the request arrives: `await Consultation.findById(consultation._id)`
PostConsultationReport(body, userId) ==
  LET q == Request("consultation-report", body, userId)
  IN /\ issued' = [issued EXCEPT !["consultation-report"] = @ + 1]
     /\ Resume(q, [q EXCEPT !.pc = "findConsultation"])
     /\ UNCHANGED <<appointments, consultationRooms, payments, aiReport, generated,
                    savedReports>>

\* after Consultation.findById: 404, the stored report when there is one
\* (null and the empty string are falsy), or the handler goes on
ReportFindConsultation(q, outcome) ==
  /\ q \in requests /\ q.route = "consultation-report" /\ q.pc = "findConsultation"
  /\ IF outcome = "rejected" THEN Respond(q, 500, "AI report generation failed")
     ELSE IF q.body.consultation \notin DOMAIN aiReport
          THEN Respond(q, 404, "Consultation not found")
     ELSE IF ~Falsy(aiReport[q.body.consultation])
          THEN Respond(q, 200, [report |-> aiReport[q.body.consultation], fromCache |-> TRUE])
     ELSE Resume(q, [q EXCEPT !.pc = "findPatient", !.doc = <<q.body.consultation>>])
  /\ UNCHANGED <<issued, appointments, consultationRooms, payments, aiReport, generated,
                 savedReports>>

\* after Patient.findById
ReportFindPatient(q, outcome) ==
  /\ q \in requests /\ q.route = "consultation-report" /\ q.pc = "findPatient"
  /\ IF outcome = "rejected" THEN Respond(q, 500, "AI report generation failed")
     ELSE IF q.body.patientId \notin Patients THEN Respond(q, 404, "Patient not found")
     ELSE Resume(q, [q EXCEPT !.pc = "findDoctor"])
  /\ UNCHANGED <<issued, appointments, consultationRooms, payments, aiReport, generated,
                 savedReports>>

\* after Doctor.findById: 404, or the prompt is built and the generator called
ReportFindDoctor(q, outcome) ==
  /\ q \in requests /\ q.route = "consultation-report" /\ q.pc = "findDoctor"
  /\ IF outcome = "rejected" THEN Respond(q, 500, "AI report generation failed")
     ELSE IF q.body.doctorId \notin DOMAIN Doctors THEN Respond(q, 404, "Doctor not found")
     ELSE Resume(q, [q EXCEPT !.pc = "generateContent"])
  /\ UNCHANGED <<issued, appointments, consultationRooms, payments, aiReport, generated,
                 savedReports>>

\* after model.generateContent(prompt): the report text, or an exception
ReportGenerate(q, result) ==
  /\ q \in requests /\ q.route = "consultation-report" /\ q.pc = "generateContent"
  /\ IF result = "throws"
     THEN /\ Respond(q, 500, "AI report generation failed")
          /\ UNCHANGED generated
     ELSE /\ generated' = Append(generated, result)
          /\ Resume(q, [q EXCEPT !.pc = "save", !.made = <<result>>])
  /\ UNCHANGED <<issued, appointments, consultationRooms, payments, aiReport, savedReports>>

\* dbConsultation.aiReport = reportText; await dbConsultation.save()
SaveReport(db, id, reportText) == [db EXCEPT ![id] = reportText]

\* after dbConsultation.save(): the response with fromCache false
ReportSave(q, outcome) ==
  /\ q \in requests /\ q.route = "consultation-report" /\ q.pc = "save"
  /\ IF outcome = "rejected"
     THEN /\ Respond(q, 500, "AI report generation failed")
          /\ UNCHANGED <<aiReport, savedReports>>
     ELSE /\ aiReport' = SaveReport(aiReport, q.doc[1], q.made[1])
          /\ savedReports' = Append(savedReports, q.made[1])
          /\ Respond(q, 200, [report |-> q.made[1], fromCache |-> FALSE])
  /\ UNCHANGED <<issued, appointments, consultationRooms, payments, generated>>

\* the report scenario: concurrent consultation-report requests
OnPostConsultationReport ==
  \E body \in ReportBodies :
    /\ issued["consultation-report"] < MaxRequests
    /\ PostConsultationReport(body, "u1")
    /\ UNCHANGED relay

OnReportStep ==
  \E q \in requests, outcome \in Outcomes :
    /\ \/ ReportFindConsultation(q, outcome)
       \/ ReportFindPatient(q, outcome)
       \/ ReportFindDoctor(q, outcome)
       \/ ReportSave(q, outcome)
    /\ UNCHANGED relay

OnReportGenerate ==
  \E q \in requests, result \in Reports \cup {"throws"} :
    ReportGenerate(q, result) /\ UNCHANGED relay

NextReport ==
  \/ OnPostConsultationReport
  \/ OnReportStep
  \/ OnReportGenerate

SpecReport == Init /\ [][NextReport]_vars

----------------------------------------------------------------------------
(* Observations on the emits *)

\* the emits of bag box that satisfy P, counted with their multiplicity
RECURSIVE CountIn(_, _)
CountIn(box, S) ==
  IF S = {} THEN 0
  ELSE LET e == CHOOSE x \in S : TRUE IN CopiesIn(e, box) + CountIn(box, S \ {e})

\* number of copies of the message (event, body) that connection c receives
Received(box, c, event, body) ==
  CountIn(box, {e \in BagToSet(box) : e.event = event /\ c \in e.to /\ e.body = body})

\* number of messages named event that connection c receives
ReceivedAny(box, c, event) ==
  CountIn(box, {e \in BagToSet(box) : e.event = event /\ c \in e.to})

\* number of messages named event, addressed to room r, that connection c receives
ReceivedVia(box, c, r, event) ==
  CountIn(box, {e \in BagToSet(box) : e.event = event /\ e.room = r /\ c \in e.to})

\* everything connection c receives
ReceivedAll(box, c) == CountIn(box, {e \in BagToSet(box) : c \in e.to})

SignalKinds == {"webrtc-offer", "webrtc-answer", "webrtc-ice-candidate"}

----------------------------------------------------------------------------
(* Claims *)

\* position of the first join-room event of connection c in the join scenario
FirstJoin(c) ==
  CHOOSE i \in DOMAIN joinOrder : joinOrder[i] = c /\ \A j \in 1..(i - 1) : joinOrder[j] # c

\* the connections of the join scenario
Joiners == {joinOrder[i] : i \in DOMAIN joinOrder}

\* C1: after any sequence of join-room events for one room, for every pair of
\* participants the earlier joiner has received exactly one user-joined
\* {later, isInitiator: true}, the later joiner exactly one user-joined
\* {earlier, isInitiator: false}, and the later joiner has never been told to
\* initiate toward the earlier one.
C1_OneInitiatorPerPair ==
  \A a \in Joiners, b \in Joiners :
    FirstJoin(a) < FirstJoin(b) =>
      /\ Received(delivered, a, "user-joined", [userId |-> b, isInitiator |-> TRUE]) = 1
      /\ Received(delivered, b, "user-joined", [userId |-> a, isInitiator |-> FALSE]) = 1
      /\ Received(delivered, b, "user-joined", [userId |-> a, isInitiator |-> TRUE]) = 0

\* C2: a join-room event sends the joiner room-ready iff the room had no members
\* before the join; the joiner then receives no user-joined and no other
\* connection receives anything.
C2_RoomReadyIffFirst ==
  last.kind = "join-room" =>
    LET c == last.conn
        r == last.roomId
        first == Members(last.before, r) = {}
    IN /\ first => Received(outbox, c, "room-ready", [roomId |-> r]) = 1
       /\ first => ReceivedAny(outbox, c, "user-joined") = 0
       /\ first => \A d \in Conns \ {c} : ReceivedAll(outbox, d) = 0
       /\ ~first => \A d \in Conns : ReceivedAny(outbox, d, "room-ready") = 0

\* a connection joined an empty room while another connection sat in another room
C2_Witness ==
  /\ last.kind = "join-room"
  /\ Members(last.before, last.roomId) = {}
  /\ last.before # << >>
  /\ ReceivedAny(outbox, last.conn, "room-ready") = 1

\* C3: after leave-room(R) or a disconnect of connection X, X is not a member of
\* R, and user-left {userId: X} for R is received once by each connection that
\* was a member of R other than X, and by no other connection.
C3_UserLeftToMembersOnly ==
  /\ last.kind = "leave-room" =>
        /\ last.conn \notin Members(roomParticipants, last.roomId)
        /\ \A d \in Conns :
             Received(outbox, d, "user-left", [userId |-> last.conn])
               = IF d \in Members(last.before, last.roomId) \ {last.conn} THEN 1 ELSE 0
  /\ last.kind = "disconnect" =>
        \A r \in RoomIds :
          /\ last.conn \notin Members(roomParticipants, r)
          /\ \A d \in Conns :
               ReceivedVia(outbox, d, r, "user-left")
                 = IF /\ last.conn \in Members(last.before, r)
                      /\ d \in Members(last.before, r) \ {last.conn}
                   THEN 1 ELSE 0

\* C4: roomParticipants has no entry with an empty member set: a room has an
\* entry exactly while some connection that joined it has neither left nor
\* disconnected, and the entry goes in the step in which the last member goes.
C4_NoEmptyRoom ==
  /\ \A r \in DOMAIN roomParticipants : roomParticipants[r] # {}
  /\ \A r \in RoomIds : r \in DOMAIN roomParticipants <=> \E c \in Conns : r \in joined[c]
  /\ last.kind \in {"leave-room", "disconnect"} =>
        \A r \in DOMAIN last.before :
          last.before[r] = {last.conn} /\ (last.kind = "disconnect" \/ last.roomId = r)
            => r \notin DOMAIN roomParticipants

\* the last member of a room left it, or disconnected, and the entry is gone
C4_Witness ==
  /\ last.kind \in {"leave-room", "disconnect"}
  /\ \E r \in DOMAIN last.before :
       /\ last.before[r] = {last.conn}
       /\ r \notin DOMAIN roomParticipants

\* C5: connection X is a member of room R iff X sent join-room(R) and has since
\* neither sent leave-room(R) nor disconnected; a disconnected connection is a
\* member of no room.
C5_MembersAreJoined ==
  /\ \A r \in RoomIds, c \in Conns : c \in Members(roomParticipants, r) <=> r \in joined[c]
  /\ \A c \in Conns : status[c] = "disconnected" => RoomsOf(roomParticipants, c) = {}
  /\ DOMAIN roomParticipants \subseteq RoomIds

\* a connection that was in a room with another one has left it or disconnected
C5_Witness ==
  /\ last.kind \in {"leave-room", "disconnect"}
  /\ \E r \in DOMAIN last.before :
       /\ last.conn \in last.before[r]
       /\ last.kind = "leave-room" => last.roomId = r
       /\ Members(roomParticipants, r) = last.before[r] \ {last.conn}
       /\ Members(roomParticipants, r) # {}

\* C6: a signaling event whose `to` is set is delivered only to the connection
\* whose id is `to`.
C6_UnicastOnlyToTarget ==
  last.kind \in SignalKinds /\ last.to # None =>
    \A d \in Conns : ReceivedAll(outbox, d) > 0 => d = last.to

\* C7: a signaling event without `to` is delivered once to every member of
\* roomId other than the sender, and to no other connection.
C7_BroadcastToOtherMembers ==
  last.kind \in SignalKinds /\ last.to = None =>
    \A d \in Conns :
      Received(outbox, d, last.kind, [from |-> last.conn])
        = IF d \in Members(roomParticipants, last.roomId) \ {last.conn} THEN 1 ELSE 0

\* C8: a disconnect of X cleans every room X was a member of in that step: X is
\* removed from each, a room left empty loses its entry, each remaining member
\* receives one user-left {userId: X} for that room; the other rooms keep
\* their members and nothing is sent for them; a connection in no room
\* changes nothing and notifies nobody.
C8_DisconnectCleansAllRooms ==
  last.kind = "disconnect" =>
    LET x == last.conn
        mine == {r \in DOMAIN last.before : x \in last.before[r]}
    IN /\ \A r \in mine :
            /\ Members(roomParticipants, r) = last.before[r] \ {x}
            /\ last.before[r] = {x} => r \notin DOMAIN roomParticipants
            /\ \A d \in last.before[r] \ {x} :
                 /\ ReceivedVia(outbox, d, r, "user-left") = 1
                 /\ \A e \in BagToSet(outbox) : e.room = r => e.body = [userId |-> x]
       /\ \A r \in Names \ mine :
            /\ r \in DOMAIN roomParticipants <=> r \in DOMAIN last.before
            /\ Members(roomParticipants, r) = Members(last.before, r)
            /\ \A e \in BagToSet(outbox) : e.room # r
       /\ mine = {} => roomParticipants = last.before /\ outbox = EmptyBag

\* a connection in two rooms disconnected: one room is gone, the other keeps a member
C8_Witness ==
  /\ last.kind = "disconnect"
  /\ \E r1 \in DOMAIN last.before, r2 \in DOMAIN last.before :
       /\ r1 # r2
       /\ last.before[r1] = {last.conn}
       /\ last.conn \in last.before[r2]
       /\ \E d \in last.before[r2] \ {last.conn} : ReceivedVia(outbox, d, r2, "user-left") = 1

\* C9: a chat-message is broadcast once to every member of roomId, the sender
\* included when it is a member, with the payload's senderId, senderRole,
\* message and file and a timestamp the relay reads from its clock.
C9_ChatToAllMembers ==
  last.kind = "chat-message" =>
    \A d \in Members(roomParticipants, last.roomId) :
      /\ ReceivedAny(outbox, d, "chat-message") = 1
      /\ Received(outbox, d, "chat-message",
                  [senderId |-> last.body.senderId, senderRole |-> last.body.senderRole,
                   message |-> last.body.message, file |-> last.body.file,
                   timestamp |-> <<"iso", last.now>>]) = 1

\* a member of a room with two members sent a chat message with a file
C9_Witness ==
  /\ last.kind = "chat-message"
  /\ last.conn \in Members(roomParticipants, last.roomId)
  /\ Cardinality(Members(roomParticipants, last.roomId)) >= 2
  /\ last.body.file # None
  /\ ReceivedAny(outbox, last.conn, "chat-message") = 1

\* the persistence of the chat message handled last has failed
ChatSinkFailed ==
  \/ last.kind = "chat-findOne" /\ last.outcome = "rejected"
  \/ last.kind = "chat-findOne" /\ last.roomId \notin DOMAIN consultations
  \/ last.kind = "chat-save" /\ last.outcome = "rejected"

\* C10: the chat broadcast is made when the event arrives, before the Sink is
\* called (the handler is then still waiting on findOne); a Sink failure sends
\* nothing to anyone, the sender included, and leaves the Membership Table as
\* it was.
C10_SinkFailureAfterDelivery ==
  /\ last.kind = "chat-message" =>
        /\ \E e \in BagToSet(outbox) :
             /\ e.event = "chat-message"
             /\ Members(roomParticipants, last.roomId) \subseteq e.to
        /\ \E t \in BagToSet(tasks) :
             t.pc = "findOne" /\ t.roomId = last.roomId /\ t.body = last.body
  /\ \A t \in BagToSet(tasks) : t.pc \in {"findOne", "save"}
  /\ ChatSinkFailed =>
        /\ \A d \in Conns : ReceivedAll(outbox, d) = 0
        /\ outbox = EmptyBag
        /\ roomParticipants = last.before

\* the save of a chat message sent to a room with members was rejected
C10_Witness ==
  /\ last.kind = "chat-save"
  /\ last.outcome = "rejected"
  /\ Members(roomParticipants, last.roomId) # {}
  /\ consultations[last.roomId].chatMessages = <<>>

\* C14: every connect attempt ends in a registered connection, whatever the
\* token; socket.user is the decoded payload iff a token was sent and verified,
\* and no attempt is rejected.
C14_ConnectFailsOpen ==
  /\ \A c \in Conns : status[c] \in {"new", "connected", "disconnected"}
  /\ last.kind = "connect" =>
        /\ status[last.conn] = "connected"
        /\ last.conn \in rooms[last.conn]
        /\ last.body = "good" => user[last.conn] = <<[userId |-> "u1"]>>
        /\ last.body # "good" => user[last.conn] = <<>>

\* a connection with a token that does not verify is registered, without identity
C14_Witness ==
  /\ last.kind = "connect"
  /\ last.body = "bad"
  /\ status[last.conn] = "connected"
  /\ user[last.conn] = <<>>
  /\ \E c \in Conns : user[c] # <<>>

\* the persistence of the transcription update handled last has failed
TranscriptSinkFailed ==
  \/ last.kind = "transcript-findOne" /\ last.outcome = "rejected"
  \/ last.kind = "transcript-findOne" /\ last.roomId \notin DOMAIN consultations
  \/ last.kind = "transcript-save" /\ last.outcome = "rejected"

\* C11: when the Persistence Sink fails for a transcription-update with valid
\* fields (no consultation record, or a storage error on find or save), the
\* entry is still broadcast to all members of roomId: the handler that ends
\* on the failure has made its broadcast, or makes it in that step.
C11_TranscriptDeliveredDespiteFailure ==
  TranscriptSinkFailed =>
    \/ last.body.sent
    \/ \E e \in BagToSet(outbox) :
         /\ e.event = "transcription-update"
         /\ e.room = last.roomId
         /\ Members(roomParticipants, last.roomId) \subseteq e.to

\* C16: a transcription-update that lacks roomId, text or senderRole is
\* discarded: nothing is emitted to any connection, the sender included, no
\* handler is left waiting to append it to a consultation record (no pending
\* handler ever carries such a payload), and the Membership Table is unchanged.
C16_InvalidTranscriptDiscarded ==
  /\ \A t \in BagToSet(tasks) :
       t.event = "transcription-update" =>
         ~Falsy(t.body.roomId) /\ ~Falsy(t.body.text) /\ ~Falsy(t.body.senderRole)
  /\ \A r \in DOMAIN consultations :
       \A i \in DOMAIN consultations[r].transcription :
         ~Falsy(consultations[r].transcription[i].text)
  /\ (/\ last.kind = "transcription-update"
      /\ (Falsy(last.body.roomId) \/ Falsy(last.body.text) \/ Falsy(last.body.senderRole))) =>
        /\ outbox = EmptyBag
        /\ \A d \in Conns : ReceivedAll(outbox, d) = 0
        /\ roomParticipants = last.before
        /\ \A t \in BagToSet(tasks) :
             t.event = "transcription-update" => t.body # last.body

\* a member of a room with two members sent a transcription update with an empty text
C16_Witness ==
  /\ last.kind = "transcription-update"
  /\ last.body.text = ""
  /\ last.conn \in Members(roomParticipants, last.body.roomId)
  /\ Cardinality(Members(roomParticipants, last.body.roomId)) = 2
  /\ outbox = EmptyBag

\* C17: the senderRole persisted and broadcast for a transcription-update is
\* the supplied one when it is 'doctor' or 'patient' and 'unknown' otherwise;
\* no other role is ever persisted or broadcast.
C17_RoleNormalized ==
  /\ \A e \in BagToSet(outbox) :
       e.event = "transcription-update" => e.body.senderRole \in {"doctor", "patient", "unknown"}
  /\ \A r \in DOMAIN consultations :
       \A i \in DOMAIN consultations[r].transcription :
         consultations[r].transcription[i].senderRole \in {"doctor", "patient", "unknown"}
  /\ \A t \in BagToSet(tasks) :
       t.event = "transcription-update" /\ t.pc = "save" =>
         t.pushed[1].senderRole = IF t.body.senderRole \in {"doctor", "patient"}
                                  THEN t.body.senderRole ELSE "unknown"
  /\ last.kind = "transcript-save" /\ last.outcome = "resolved" =>
       LET supplied == last.body.body.senderRole
           role == IF supplied \in {"doctor", "patient"} THEN supplied ELSE "unknown"
           stored == consultations[last.roomId].transcription
       IN /\ stored # <<>>
          /\ stored[Len(stored)].senderRole = role
          /\ \E e \in BagToSet(outbox) : e.event = "transcription-update"
          /\ \A e \in BagToSet(outbox) : e.body.senderRole = role

\* a transcription update with the role 'admin' was saved and broadcast to two members
C17_Witness ==
  /\ last.kind = "transcript-save"
  /\ last.outcome = "resolved"
  /\ last.body.body.senderRole = "admin"
  /\ consultations[last.roomId].transcription # <<>>
  /\ \E d \in Conns \ {last.conn} :
       ReceivedAny(outbox, d, "transcription-update") = 1

\* C12: delivery never waits on the Persistence Sink: every chat-message or
\* transcription-update handler that is waiting on a Sink call (find or save)
\* has already made its broadcast, and while a Sink call is pending every
\* connected connection can still have its join, leave, signal, chat,
\* transcript and disconnect events handled.
C12_DeliveryNeverWaitsOnSink ==
  /\ \A t \in BagToSet(tasks) : t.sent
  /\ tasks # EmptyBag =>
       \A c \in Conns :
         status[c] = "connected" =>
           /\ ENABLED JoinRoom(c, "r1")
           /\ ENABLED LeaveRoom(c, "r1")
           /\ ENABLED WebrtcOffer(c, "r1", None)
           /\ ENABLED ChatMessage(c, "r1", CHOOSE b \in ChatBodies : TRUE, "t1")
           /\ ENABLED TranscriptionUpdate(c, CHOOSE d \in TranscriptData : TRUE)
           /\ ENABLED Disconnect(c)

\* the chat messages stored for the consultation of room r1
StoredChat == consultations["r1"].chatMessages

\* C13: chat persistence is a read-modify-write that can lose a message: when
\* two handlers for the same room both read the record before either saves
\* (the handler that saves last had read the empty record) and nothing fails,
\* both messages are broadcast but the record ends up with one of them.
C13_RaceLosesOneMessage ==
  (/\ last.kind = "chat-save"
   /\ tasks = EmptyBag
   /\ BagCardinality(delivered) = 2
   /\ last.body.doc.chatMessages = <<>>) => Len(StoredChat) = 1

\* C13 as amended: with no Sink failure no chat message is lost, however the
\* handlers interleave: each broadcast message is stored or has its handler
\* still waiting, and once no handler waits the record holds every broadcast
\* message once.
C13_NoMessageLost ==
  /\ Len(StoredChat) + BagCardinality(tasks) = BagCardinality(delivered)
  /\ tasks = EmptyBag =>
       \A b \in ChatBodies :
         Cardinality({i \in DOMAIN StoredChat : StoredChat[i].message = b.message})
           = CountIn(delivered, {e \in BagToSet(delivered) : e.body.message = b.message})

\* two handlers raced: the one that saved last had read the empty record, and
\* both messages are stored
C13_Witness ==
  /\ last.kind = "chat-save"
  /\ tasks = EmptyBag
  /\ BagCardinality(delivered) = 2
  /\ last.body.doc.chatMessages = <<>>
  /\ Len(StoredChat) = 2
  /\ StoredChat[1].message # StoredChat[2].message

\* C15: a signaling event whose `to` names no currently connected connection
\* is delivered to nobody, the sender gets no reply, and the Membership Table
\* is unchanged.
C15_UnknownTargetDropped ==
  (/\ last.kind \in SignalKinds
   /\ last.to # None
   /\ ~(last.to \in Conns /\ status[last.to] = "connected")) =>
     /\ \A d \in Conns : ReceivedAll(outbox, d) = 0
     /\ roomParticipants = last.before

\* C19: every delivered webrtc-offer, webrtc-answer and webrtc-ice-candidate,
\* unicast or broadcast, carries `from` equal to the id of the connection that
\* sent the event, and the handler emits nothing else.
C19_FromIsSender ==
  last.kind \in SignalKinds =>
    /\ \A e \in BagToSet(outbox) : e.event = last.kind /\ e.body = [from |-> last.conn]
    /\ \A d \in Conns :
         ReceivedAll(outbox, d) = Received(outbox, d, last.kind, [from |-> last.conn])

\* a unicast signal, or a broadcast to a room, reached a connection other than the sender
C19_Witness ==
  /\ last.kind \in SignalKinds
  /\ \E d \in Conns \ {last.conn} :
       /\ Received(outbox, d, last.kind, [from |-> last.conn]) = 1
       /\ last.to = d \/ (last.to = None /\ d \in Members(roomParticipants, last.roomId))

\* C20: a leave-room(R) from a connection that is not a member of R leaves the
\* Membership Table unchanged and delivers no user-left to any connection.
C20_LeaveByNonMemberIsSilent ==
  (/\ last.kind = "leave-room"
   /\ last.conn \notin Members(last.before, last.roomId)) =>
     /\ roomParticipants = last.before
     /\ \A d \in Conns : ReceivedAny(outbox, d, "user-left") = 0

\* C18: no inbound event is fatal to the relay: an event whose payload object
\* is missing leaves the Membership Table as it was and the relay running, so
\* that every connection stays registered and can have its later events handled.
C18_NoEventIsFatal ==
  /\ \A c \in Conns : status[c] # "down"
  /\ last.kind = "no-payload" =>
       /\ roomParticipants = last.before
       /\ status[last.conn] = "connected"
       /\ \A c \in Conns : status[c] = "connected" => ENABLED JoinRoom(c, "r1")

\* C21: no join-room, a repeated one from a member included, makes a
\* connection receive a user-joined whose userId is its own id, and a repeated
\* join leaves the room's member set as it was.
C21_NoNoticeAboutOneself ==
  last.kind = "join-room" =>
    /\ \A d \in Conns :
         Received(outbox, d, "user-joined", [userId |-> d, isInitiator |-> TRUE])
           + Received(outbox, d, "user-joined", [userId |-> d, isInitiator |-> FALSE]) = 0
    /\ last.conn \in Members(last.before, last.roomId) =>
         Members(roomParticipants, last.roomId) = Members(last.before, last.roomId)

\* C23: signaling, chat-message and transcription-update events, with any
\* payload (a missing one included) and any Sink outcome, leave every room's
\* member set in the Membership Table as it was.
C23_RelayEventsKeepMembership ==
  last.kind \in SignalKinds \cup {"chat-message", "chat-findOne", "chat-save",
                                 "transcription-update", "transcript-findOne",
                                 "transcript-save", "no-payload"} =>
    /\ roomParticipants = last.before
    /\ \A r \in Names : Members(roomParticipants, r) = Members(last.before, r)

\* C24: a transcription-update broadcast is made only once its entry is saved:
\* whenever one is delivered, the record of that roomId holds the entry with
\* the same senderId, senderRole, trimmed text and timestamp.
C24_BroadcastOnlyAfterSave ==
  \A e \in BagToSet(outbox) :
    e.event = "transcription-update" =>
      /\ e.room \in DOMAIN consultations
      /\ \E i \in DOMAIN consultations[e.room].transcription :
           LET entry == consultations[e.room].transcription[i]
           IN /\ entry.senderId = e.body.senderId
              /\ entry.senderRole = e.body.senderRole
              /\ entry.text = e.body.text
              /\ e.body.text = "hi"
              /\ <<"iso", entry.timestamp>> = e.body.timestamp
      /\ last.kind = "transcript-save" /\ last.outcome = "resolved"

\* a saved transcription entry was broadcast to the two members of its room
C24_Witness ==
  /\ last.kind = "transcript-save"
  /\ Cardinality(Members(roomParticipants, last.roomId)) = 2
  /\ \A d \in Members(roomParticipants, last.roomId) :
       ReceivedAny(outbox, d, "transcription-update") = 1
  /\ Len(consultations[last.roomId].transcription) = 1

\* C26: the sender need not be a member of the room it addresses: a broadcast
\* signal or a chat-message naming room R from a connection that is not a
\* member of R reaches every current member of R once, and the chat message
\* is appended to R's consultation record when its save resolves.
C26_SenderNeedNotBeMember ==
  /\ (/\ last.kind \in SignalKinds
      /\ last.to = None
      /\ last.conn \notin Members(roomParticipants, last.roomId)) =>
       \A m \in Members(roomParticipants, last.roomId) :
         Received(outbox, m, last.kind, [from |-> last.conn]) = 1
  /\ (/\ last.kind = "chat-message"
      /\ last.conn \notin Members(roomParticipants, last.roomId)) =>
       /\ \A m \in Members(roomParticipants, last.roomId) :
            ReceivedAny(outbox, m, "chat-message") = 1
       /\ \E t \in BagToSet(tasks) :
            t.event = "chat-message" /\ t.roomId = last.roomId /\ t.body = last.body
  /\ (/\ last.kind = "chat-save"
      /\ last.outcome = "resolved"
      /\ last.roomId \in DOMAIN consultations) =>
       LET stored == consultations[last.roomId].chatMessages
       IN /\ stored # <<>>
          /\ stored[Len(stored)].message = last.body.message
          /\ stored[Len(stored)].senderId = last.body.senderId

\* the chat message of a connection in no room was stored for a room with two members
C26_Witness ==
  /\ last.kind = "chat-save"
  /\ last.outcome = "resolved"
  /\ RoomsOf(roomParticipants, last.conn) = {}
  /\ Cardinality(Members(roomParticipants, last.roomId)) = 2
  /\ Len(consultations[last.roomId].chatMessages) = 1

\* C27: the senderId and senderRole of a broadcast and of a stored chat message
\* are the payload's, whatever the identity of the sending connection; the
\* senderId of a transcription entry is the userId of the connection's
\* verified token, or the connection id when it has none.
C27_SenderIdentity ==
  /\ last.kind = "chat-message" =>
       \A e \in BagToSet(outbox) :
         /\ e.body.senderId = last.body.senderId
         /\ e.body.senderRole = last.body.senderRole
  /\ \A t \in BagToSet(tasks) :
       /\ (t.event = "chat-message" /\ t.pc = "save") =>
            /\ t.pushed[1].senderId = t.body.senderId
            /\ t.pushed[1].senderRole = t.body.senderRole
       /\ (t.event = "transcription-update" /\ t.pc = "save") =>
            t.pushed[1].senderId = IF user[t.conn] = <<>> THEN t.conn ELSE "u1"
  /\ (last.kind = "chat-save" /\ last.outcome = "resolved") =>
       LET stored == consultations[last.roomId].chatMessages
       IN /\ stored[Len(stored)].senderId = last.body.senderId
          /\ stored[Len(stored)].senderRole = last.body.senderRole
  /\ (last.kind = "transcript-save" /\ last.outcome = "resolved") =>
       LET stored == consultations[last.roomId].transcription
           id == IF user[last.conn] = <<>> THEN last.conn ELSE "u1"
       IN /\ stored[Len(stored)].senderId = id
          /\ \A e \in BagToSet(outbox) : e.body.senderId = id

\* a connection with a verified token had a transcription entry saved and broadcast
C27_Witness ==
  /\ last.kind = "transcript-save"
  /\ last.outcome = "resolved"
  /\ user[last.conn] # <<>>
  /\ \E e \in BagToSet(outbox) : e.body.senderId = "u1" /\ e.to # {}

\* C22: when connections join a room only while they are not members of it,
\* for every pair of current members of a room the user-joined notices the two
\* received last about each other designate exactly one initiator, the one
\* whose current membership started earlier: it was told isInitiator true
\* about the other, and the other was told isInitiator false about it.
C22_EarlierMemberInitiates ==
  \A r \in RoomIds :
    \A i \in DOMAIN memberSince[r], j \in DOMAIN memberSince[r] :
      i < j =>
        LET a == memberSince[r][i]
            b == memberSince[r][j]
        IN /\ notified[a][b] = <<TRUE>>
           /\ notified[b][a] = <<FALSE>>

\* position of the transcription-update event x in the order of reception
ReceivedAt(x) == CHOOSE i \in DOMAIN received : received[i] = x

\* C25: transcription-update events for the same room are broadcast to the
\* room's members in the order in which the relay received them, however the
\* find and save steps of their handlers interleave.
C25_BroadcastInReceivedOrder ==
  \A i \in DOMAIN broadcast, j \in DOMAIN broadcast :
    i < j => ReceivedAt(broadcast[i]) < ReceivedAt(broadcast[j])

\* the 10-minute windows of two stored appointments overlap
Overlap(a, b) ==
  /\ a.appointmentDate < b.appointmentDate + APPOINTMENT_DURATION_MINUTES
  /\ b.appointmentDate < a.appointmentDate + APPOINTMENT_DURATION_MINUTES

\* C28: no two stored appointments of the same doctor have overlapping
\* 10-minute windows, under any interleaving of concurrent POST
\* /api/appointments requests; a request answered 409 has stored no
\* appointment and no consultation room.
C28_NoOverlappingAppointments ==
  /\ \A i \in DOMAIN appointments, j \in DOMAIN appointments :
       (i < j /\ appointments[i].doctorId = appointments[j].doctorId)
         => ~Overlap(appointments[i], appointments[j])
  /\ \A r \in {response[i] : i \in DOMAIN response} :
       (r.route = "appointments" /\ r.status = 409) => r.stored = <<>>

\* the payments of appointment a that the gateway has completed
Charges(a) == {i \in DOMAIN payments :
                 payments[i].appointmentId = a /\ payments[i].status = "COMPLETED"}

\* C29: an appointment is charged at most once: a process-payment request
\* that read paymentStatus 'paid' never goes on to createPayment, and under
\* any interleaving of concurrent process-payment requests for one
\* appointment the gateway completes at most one payment for it.
C29_ChargedAtMostOnce ==
  /\ \A q \in requests :
       (q.route = "process-payment" /\ q.pc = "createPayment")
         => q.made[1].paymentStatus # "paid"
  /\ \A a \in DOMAIN appointments : Cardinality(Charges(a)) <= 1

\* C30: a consultation's AI report is generated and saved only once, under any
\* interleaving of concurrent consultation-report requests: the generator
\* returns at most one report, at most one report is saved (a stored report
\* is never overwritten), and a response with fromCache true carries the
\* stored report.
C30_ReportGeneratedOnce ==
  /\ Len(generated) <= 1
  /\ Len(savedReports) <= 1
  /\ \A r \in {response[i] : i \in DOMAIN response} :
       (r.route = "consultation-report" /\ r.status = 200 /\ r.body.fromCache)
         => r.body.report = aiReport["r1"]

====
